---- MODULE Spec2Model ----
(***************************************************************************)
(* Model of the modal overlay of iced_aw, src/native/overlay/modal.rs:     *)
(* ModalOverlay::new and the four Overlay callbacks layout, on_event,      *)
(* mouse_interaction and draw.  The wrapped content element, the shell,    *)
(* the renderer and the host that hands in layouts are the environment:    *)
(* what they return is drawn from small sets.                              *)
(***************************************************************************)
EXTENDS Integers, Sequences, FiniteSets, TLC

\* ------------------------------------------------------------------ bounds
\* Half of the largest extent (width, height) given to layout; extents are even.
MaxHalfExtent == 1
\* Largest anchor coordinate given to layout.
MaxAnchor == 1
\* Largest cursor coordinate (cursor points lie on the grid 0..MaxCoord squared).
MaxCoord == 3
\* Number of on_event calls followed on one overlay.
MaxCalls == 2
\* Most messages the content's own handler publishes in one call.
MaxContentMsgs == 1

\* ------------------------------------------------------- Option<T> values
None == <<>>
Some(x) == <<x>>
IsSome(o) == o # <<>>

\* Option::as_ref: borrows the value, the option keeps it.
AsRefTake(o) == [value |-> o, left |-> None]
AsRef(o) == [value |-> o, left |-> o]

\* Option::zip: Some of the pair when both are Some.
Zip(a, b) == IF IsSome(a) /\ IsSome(b) THEN Some(<<a[1], b[1]>>) ELSE None

\* Option<Point>::unwrap_or_default: Point::default() is the origin.
PointDefault == <<0, 0>>
UnwrapOrFar(o) == IF IsSome(o) THEN o[1] ELSE <<0 - 1, 0 - 1>>
UnwrapOrDefault(o) == IF IsSome(o) THEN o[1] ELSE PointDefault

\* --------------------------------------------------------------- geometry
SizeZero == <<0, 0>>
Rect(x, y, w, h) == [x |-> x, y |-> y, width |-> w, height |-> h]

\* Rectangle::contains of the host toolkit: left/top inclusive, right/bottom exclusive.
Contains(r, p) ==
    /\ r.x <= p[1]
    /\ p[1] < r.x + r.width
    /\ r.y <= p[2]
    /\ p[2] < r.y + r.height

\* Limits::new(min, max) and Limits::max.
LimitsNew(min, max) == [min |-> min, max |-> max]

\* f32 division by 2.0; exact on the even extents the model uses.
Half(v) == v \div 2

\* A layout node: its bounds and its children (nodes without children of their own).
Node(bounds, children) == [bounds |-> bounds, children |-> children]
MoveTo(n, p) == [n EXCEPT !.bounds.x = p[1], !.bounds.y = p[2]]
NodeWithChildren(size, children) == Node(Rect(0, 0, size[1], size[2]), children)

\* layout.children().next()
FirstChild(n) == IF Len(n.children) > 0 THEN Some(n.children[1]) ELSE None

\* ------------------------------------------------------------------ layout
\* The result of ModalOverlay::layout for the available size `bounds`, the
\* size the content's own layout returned and the anchor `position`.
LayoutNodeNoCenter(bounds, contentSize, position) ==
    LET limits == LimitsNew(SizeZero, bounds)
        content == Node(Rect(0, 0, contentSize[1], contentSize[2]), <<>>)
        max_size == limits.max
        pos == <<position[1] + Half(max_size[1]), position[2] + Half(max_size[2])>>
    IN  NodeWithChildren(max_size, <<MoveTo(content, pos)>>)

LayoutNodeContentSized(bounds, contentSize, position) ==
    LET limits == LimitsNew(SizeZero, bounds)
        content == Node(Rect(0, 0, contentSize[1], contentSize[2]), <<>>)
        max_size == limits.max
        pos == <<position[1] + (Half(max_size[1]) - Half(content.bounds.width)),
                 position[2] + (Half(max_size[2]) - Half(content.bounds.height))>>
        moved == MoveTo(content, pos)
    IN  Node(moved.bounds, <<>>)

LayoutNode(bounds, contentSize, position) ==
    LET limits == LimitsNew(SizeZero, bounds)
        content == Node(Rect(0, 0, contentSize[1], contentSize[2]), <<>>)
        max_size == limits.max
        container_half_width == Half(max_size[1])
        container_half_height == Half(max_size[2])
        content_half_width == Half(content.bounds.width)
        content_half_height == Half(content.bounds.height)
        pos == <<position[1] + (container_half_width - content_half_width),
                 position[2] + (container_half_height - content_half_height)>>
    IN  NodeWithChildren(max_size, <<MoveTo(content, pos)>>)

\* ------------------------------------------------------------------ events
Ignored == "Ignored"
Captured == "Captured"

\* event::Status::merge: Captured as soon as one of the two is Captured.
Merge(a, b) == IF a = Captured \/ b = Captured THEN Captured ELSE Ignored

\* An event of the host: its family, its variant and the variant's payload
\* (key code, mouse button); a touch event carries its own finger position.
Event(type, kind, arg, position) ==
    [type |-> type, kind |-> kind, arg |-> arg, position |-> position]

IsEscapePressed(event) ==
    event.type = "Keyboard" /\ event.kind = "KeyPressed" /\ event.arg = "Escape"

IsPrimaryPress(event) ==
    \/ event.type = "Mouse" /\ event.kind = "ButtonPressed" /\ event.arg = "Left"
    \/ event.type = "Touch" /\ event.kind = "FingerPressed"

\* The escape check of on_event: what it publishes, its status, and self.esc after it.
EscCheckCaptureUnregistered(esc, event) ==
    IF IsEscapePressed(event)
    THEN [status |-> Captured, published |-> esc, left |-> esc]
    ELSE [status |-> Ignored, published |-> <<>>, left |-> esc]

EscCheckNotCaptured(esc, event) ==
    LET borrowed == AsRef(esc)
    IN  IF IsSome(borrowed.value) /\ IsEscapePressed(event)
        THEN [status |-> Ignored, published |-> <<borrowed.value[1]>>,
              left |-> borrowed.left]
        ELSE [status |-> Ignored, published |-> <<>>, left |-> borrowed.left]

EscCheck(esc, event) ==
    LET borrowed == AsRef(esc)
    IN  IF IsSome(borrowed.value)
        THEN IF event.type = "Keyboard" /\ event.kind = "KeyPressed"
             THEN IF event.arg = "Escape"
                  THEN [status |-> Captured, published |-> <<borrowed.value[1]>>,
                        left |-> borrowed.left]
                  ELSE [status |-> Ignored, published |-> <<>>, left |-> borrowed.left]
             ELSE [status |-> Ignored, published |-> <<>>, left |-> borrowed.left]
        ELSE [status |-> Ignored, published |-> <<>>, left |-> borrowed.left]

\* The backdrop check of on_event on the layout `layout` (a node).
BackdropCheckInverted(backdrop, layout, event, cursor) ==
    LET borrowed == AsRef(backdrop)
        zipped == Zip(borrowed.value, FirstChild(layout))
    IN  IF IsSome(zipped) /\ IsPrimaryPress(event)
        THEN IF Contains(zipped[1][2].bounds, UnwrapOrDefault(cursor))
             THEN [status |-> Captured, published |-> <<zipped[1][1]>>,
                   left |-> borrowed.left]
             ELSE [status |-> Ignored, published |-> <<>>, left |-> borrowed.left]
        ELSE [status |-> Ignored, published |-> <<>>, left |-> borrowed.left]

BackdropCheck(backdrop, layout, event, cursor) ==
    LET borrowed == AsRef(backdrop)
        zipped == Zip(borrowed.value, FirstChild(layout))
    IN  IF IsSome(zipped)
        THEN IF \/ event.type = "Mouse" /\ event.kind = "ButtonPressed"
                     /\ event.arg = "Left"
                \/ event.type = "Touch" /\ event.kind = "FingerPressed"
             THEN IF Contains(zipped[1][2].bounds, UnwrapOrDefault(cursor))
                  THEN [status |-> Ignored, published |-> <<>>, left |-> borrowed.left]
                  ELSE [status |-> Captured, published |-> <<zipped[1][1]>>,
                        left |-> borrowed.left]
             ELSE [status |-> Ignored, published |-> <<>>, left |-> borrowed.left]
        ELSE [status |-> Ignored, published |-> <<>>, left |-> borrowed.left]

\* One invocation of a method of the wrapped content, as the content sees it.
ContentCall(method, event, layout, cursor, viewport) ==
    [method |-> method, event |-> event, layout |-> layout, cursor |-> cursor,
     viewport |-> viewport]

\* The last match of on_event: forward to the content when the merged status is
\* Ignored.  `content` is what the content's handler answers when it is called:
\* its status and the messages it publishes itself.
ForwardAlways(merged, layout, event, cursor, content) ==
    IF IsSome(FirstChild(layout))
    THEN [outcome |-> "returned", status |-> content.status,
          contentCalls |-> <<ContentCall("on_event", event, FirstChild(layout)[1],
                                         cursor, layout.bounds)>>,
          contentMsgs |-> content.msgs]
    ELSE [outcome |-> "panicked", status |-> Ignored, contentCalls |-> <<>>,
          contentMsgs |-> <<>>]

Forward(merged, layout, event, cursor, content) ==
    IF merged = Ignored
    THEN IF IsSome(FirstChild(layout))
         THEN [outcome |-> "returned", status |-> content.status,
               contentCalls |-> <<ContentCall("on_event", event, FirstChild(layout)[1],
                                              cursor, layout.bounds)>>,
               contentMsgs |-> content.msgs]
         ELSE [outcome |-> "panicked", status |-> Ignored, contentCalls |-> <<>>,
               contentMsgs |-> <<>>]
    ELSE [outcome |-> "returned", status |-> Captured, contentCalls |-> <<>>,
          contentMsgs |-> <<>>]

\* ModalOverlay::on_event as a whole.
OnEventCall(esc, backdrop, layout, event, cursor, content) ==
    LET e == EscCheck(esc, event)
        b == BackdropCheck(backdrop, layout, event, cursor)
        f == Forward(Merge(e.status, b.status), layout, event, cursor, content)
    IN  [outcome |-> f.outcome, status |-> f.status,
         esc_status |-> e.status, backdrop_status |-> b.status,
         published |-> e.published \o b.published,
         contentCalls |-> f.contentCalls,
         shell |-> e.published \o b.published \o f.contentMsgs,
         esc |-> e.left, backdrop |-> b.left]

\* ------------------------------------------------------- mouse_interaction
\* ModalOverlay::mouse_interaction: the content's answer on the content child,
\* or the failed expect when the layout has no child.
MouseInteractionDefault(layout, cursor, viewport, answer) ==
    IF IsSome(FirstChild(layout))
    THEN [outcome |-> "returned", interaction |-> answer,
          contentCalls |-> <<ContentCall("mouse_interaction", None,
                                         FirstChild(layout)[1], cursor, viewport)>>]
    ELSE [outcome |-> "returned", interaction |-> "Idle", contentCalls |-> <<>>]

MouseInteractionCall(layout, cursor, viewport, answer) ==
    IF IsSome(FirstChild(layout))
    THEN [outcome |-> "returned", interaction |-> answer,
          contentCalls |-> <<ContentCall("mouse_interaction", None,
                                         FirstChild(layout)[1], cursor, viewport)>>]
    ELSE [outcome |-> "panicked", interaction |-> "none", contentCalls |-> <<>>]

\* -------------------------------------------------------------------- draw
\* StyleSheet::active of the theme: the appearance of a style, of which draw
\* uses the background; every (theme, style) pair has its own background.
Active(theme, style) == [background |-> <<theme, style>>]

\* The renderer operations draw issues.
FillQuad(bounds, background) ==
    [op |-> "fill_quad", bounds |-> bounds, background |-> Some(background),
     cursor |-> None, viewport |-> None]
ContentDraw(layout, cursor, viewport) ==
    [op |-> "content.draw", bounds |-> layout.bounds, background |-> None,
     cursor |-> cursor, viewport |-> Some(viewport)]

\* ModalOverlay::draw: the operations it issues on the renderer, in order, and
\* whether it returns or fails on the missing content child.
DrawCallContentFirst(layout, theme, style, cursor) ==
    LET bounds == layout.bounds
        style_sheet == Active(theme, style)
    IN  IF IsSome(FirstChild(layout))
        THEN [outcome |-> "returned",
              ops |-> <<ContentDraw(FirstChild(layout)[1], cursor, bounds),
                        FillQuad(bounds, style_sheet.background)>>]
        ELSE [outcome |-> "panicked", ops |-> <<>>]

DrawCall(layout, theme, style, cursor) ==
    LET bounds == layout.bounds
        style_sheet == Active(theme, style)
        background == <<FillQuad(bounds, style_sheet.background)>>
    IN  IF IsSome(FirstChild(layout))
        THEN [outcome |-> "returned",
              ops |-> background \o <<ContentDraw(FirstChild(layout)[1], cursor, bounds)>>]
        ELSE [outcome |-> "panicked", ops |-> background]

\* ------------------------------------------------------------------- inputs
Messages == {"CloseModal", "Cancel"}
ContentMessages == {"Submit"}
Styles == {"Default", "Custom"}
Themes == {"Light", "Dark"}
Interactions == {"Idle", "Pointer"}

Option(S) == {None} \cup {Some(x) : x \in S}
SeqsUpTo(S, n) == UNION {[1..k -> S] : k \in 0..n}

Coords == 0..MaxCoord
Points == Coords \X Coords
\* mouse::Cursor: Available(point) or Unavailable; position() is Some or None.
Cursors == Option(Points)

Events ==
    { Event("Keyboard", "KeyPressed", "Escape", None),
      Event("Keyboard", "KeyPressed", "Enter", None),
      Event("Keyboard", "KeyReleased", "Escape", None),
      Event("Mouse", "ButtonPressed", "Left", None),
      Event("Mouse", "ButtonPressed", "Right", None),
      Event("Touch", "FingerPressed", "finger", Some(<<0, 0>>)),
      Event("Touch", "FingerPressed", "finger", Some(<<MaxCoord, MaxCoord>>)),
      Event("Touch", "FingerLifted", "finger", Some(<<0, 0>>)) }

\* What the content's own event handler may answer.
ContentResponses ==
    [status : {Ignored, Captured}, msgs : SeqsUpTo(ContentMessages, MaxContentMsgs)]

\* Sizes and anchors given to layout.
Evens == {2 * k : k \in 0..MaxHalfExtent}
ExampleBounds == <<400, 300>>
ExampleContent == <<100, 50>>
Sizes == (Evens \X Evens) \cup {ExampleBounds, ExampleContent}
Anchors == (0..MaxAnchor) \X (0..MaxAnchor)

\* The layouts the event and draw calls are followed on.
EventBounds == {<<4, 4>>}
EventContents == {<<2, 2>>, <<4, 4>>}
EventAnchors == {<<0, 0>>, <<1, 0>>}

\* -------------------------------------------------------------------- state
VARIABLES
    esc,        \* self.esc: Option<Message>
    backdrop,   \* self.backdrop: Option<Message>
    style,      \* self.style
    node,       \* the layout the host holds for the overlay: None before the first layout
    call,       \* the latest call on the overlay: its arguments and its result
    shell,      \* the messages published to the shell during the latest call
    rendered,   \* the renderer operations issued during the latest call
    nCaptured,  \* on_event calls the overlay's own checks captured so far
    nPublished  \* messages the overlay's own checks published so far

vars == <<esc, backdrop, style, node, call, shell, rendered, nCaptured, nPublished>>

\* Between two calls the host holds no result of the overlay.
Idle == [op |-> "idle"]

\* ModalOverlay::new
Init ==
    /\ esc \in Option(Messages)
    /\ backdrop \in Option(Messages)
    /\ style \in Styles
    /\ node = None
    /\ call = Idle
    /\ shell = <<>>
    /\ rendered = <<>>
    /\ nCaptured = 0
    /\ nPublished = 0

\* The host runs ModalOverlay::layout and keeps the node.
Layout(bounds, contentSize, position) ==
    /\ call = Idle
    /\ node' = Some(LayoutNode(bounds, contentSize, position))
    /\ call' = [op |-> "layout", bounds |-> bounds, contentSize |-> contentSize,
                position |-> position]
    /\ shell' = <<>>
    /\ rendered' = <<>>
    /\ UNCHANGED <<esc, backdrop, style, nCaptured, nPublished>>

LayoutStep ==
    \E b \in EventBounds, c \in EventContents, p \in EventAnchors : Layout(b, c, p)

LayoutAny ==
    \E b \in Sizes, c \in Sizes, p \in Anchors : Layout(b, c, p)

\* A host whose layout pass did not go through ModalOverlay::layout: a node
\* without the content child.
HostLayout ==
    /\ call = Idle
    /\ node' = Some(Node(Rect(0, 0, 4, 4), <<>>))
    /\ call' = [op |-> "host_layout"]
    /\ shell' = <<>>
    /\ rendered' = <<>>
    /\ UNCHANGED <<esc, backdrop, style, nCaptured, nPublished>>

OnEvent ==
    /\ call = Idle
    /\ IsSome(node)
    /\ nCaptured < MaxCalls
    /\ \E event \in Events, cursor \in Cursors, content \in ContentResponses :
        LET r == OnEventCall(esc, backdrop, node[1], event, cursor, content)
        IN  /\ esc' = r.esc
            /\ backdrop' = r.backdrop
            /\ shell' = r.shell
            /\ call' = [op |-> "on_event", layout |-> node[1], event |-> event,
                        cursor |-> cursor, outcome |-> r.outcome, status |-> r.status,
                        esc_status |-> r.esc_status,
                        backdrop_status |-> r.backdrop_status,
                        published |-> r.published, contentCalls |-> r.contentCalls,
                        content |-> IF r.contentCalls = <<>> THEN None ELSE Some(content)]
            /\ nCaptured' = nCaptured
                  + (IF Merge(r.esc_status, r.backdrop_status) = Captured THEN 1 ELSE 0)
            /\ nPublished' = nPublished + Len(r.published)
    /\ rendered' = <<>>
    /\ UNCHANGED <<style, node>>

MouseInteraction ==
    /\ call = Idle
    /\ IsSome(node)
    /\ \E cursor \in Cursors, answer \in Interactions :
        LET r == MouseInteractionCall(node[1], cursor, node[1].bounds, answer)
        IN  call' = [op |-> "mouse_interaction", layout |-> node[1], cursor |-> cursor,
                     outcome |-> r.outcome, interaction |-> r.interaction,
                     contentCalls |-> r.contentCalls,
                     answer |-> IF r.contentCalls = <<>> THEN None ELSE Some(answer)]
    /\ shell' = <<>>
    /\ rendered' = <<>>
    /\ UNCHANGED <<esc, backdrop, style, node, nCaptured, nPublished>>

Draw ==
    /\ call = Idle
    /\ IsSome(node)
    /\ \E theme \in Themes, cursor \in Cursors :
        LET r == DrawCall(node[1], theme, style, cursor)
        IN  /\ call' = [op |-> "draw", layout |-> node[1], theme |-> theme,
                        cursor |-> cursor, outcome |-> r.outcome]
            /\ rendered' = r.ops
    /\ shell' = <<>>
    /\ UNCHANGED <<esc, backdrop, style, node, nCaptured, nPublished>>

\* The call is over: the host has taken its result (the status, the shell's
\* messages, the frame) and is ready for the next call.
HostReturn ==
    /\ call # Idle
    /\ call' = Idle
    /\ shell' = <<>>
    /\ rendered' = <<>>
    /\ UNCHANGED <<esc, backdrop, style, node, nCaptured, nPublished>>

Next == LayoutStep \/ HostLayout \/ OnEvent \/ MouseInteraction \/ Draw \/ HostReturn

Spec == Init /\ [][Next]_vars

\* The layout arithmetic on its own, over all sizes and anchors.
NextLayout == LayoutAny \/ HostReturn
InitLayout == Init /\ esc = None /\ backdrop = None /\ style = "Default"
SpecLayout == InitLayout /\ [][NextLayout]_vars

\* ---------------------------------------------------------- the properties
\* Geometry of the properties, stated on the rectangle's edges.
Right(r) == r.x + r.width
Bottom(r) == r.y + r.height
StrictlyOutside(r, p) ==
    p[1] < r.x \/ p[1] > Right(r) \/ p[2] < r.y \/ p[2] > Bottom(r)
Inside(r, p) ==
    r.x <= p[1] /\ p[1] < Right(r) /\ r.y <= p[2] /\ p[2] < Bottom(r)

HasChild(n) == Len(n.children) >= 1
ContentRect(n) == n.children[1].bounds

\* The latest call is an on_event call with a primary press or a touch start.
PressCall == call.op = "on_event" /\ IsPrimaryPress(call.event)
\* The latest call is an on_event call with an Escape key press.
EscapeCall == call.op = "on_event" /\ IsEscapePressed(call.event)

\* C1: a primary press or touch start, with a backdrop message registered and
\* the content child present: with the cursor strictly outside the content
\* rectangle, on_event publishes the backdrop message, once and nothing else,
\* and returns Captured without calling the content; with the cursor inside,
\* the overlay publishes nothing, both checks yield Ignored and the event goes
\* on to the content.
C1_BackdropPress ==
    (PressCall /\ IsSome(backdrop) /\ HasChild(call.layout) /\ IsSome(call.cursor)) =>
        /\ StrictlyOutside(ContentRect(call.layout), call.cursor[1]) =>
              /\ shell = <<backdrop[1]>>
              /\ call.published = <<backdrop[1]>>
              /\ call.outcome = "returned"
              /\ call.status = Captured
              /\ call.contentCalls = <<>>
        /\ Inside(ContentRect(call.layout), call.cursor[1]) =>
              /\ call.published = <<>>
              /\ call.backdrop_status = Ignored
              /\ call.esc_status = Ignored
              /\ Len(call.contentCalls) = 1

C1_Witness ==
    /\ PressCall /\ IsSome(backdrop) /\ HasChild(call.layout) /\ IsSome(call.cursor)
    /\ IsSome(esc) /\ esc # backdrop
    /\ StrictlyOutside(ContentRect(call.layout), call.cursor[1])
    /\ call.status = Captured
    /\ shell = <<backdrop[1]>>

\* C2: an Escape key press with an escape message registered publishes that
\* message exactly once, returns Captured and does not call the content's
\* handler, for every cursor, backdrop registration and layout.
C2_EscapeRegistered ==
    (EscapeCall /\ IsSome(esc)) =>
        /\ shell = <<esc[1]>>
        /\ call.published = <<esc[1]>>
        /\ call.outcome = "returned"
        /\ call.status = Captured
        /\ call.contentCalls = <<>>

C2_Witness ==
    /\ EscapeCall /\ IsSome(esc) /\ IsSome(backdrop) /\ esc # backdrop
    /\ HasChild(call.layout) /\ IsSome(call.cursor)
    /\ StrictlyOutside(ContentRect(call.layout), call.cursor[1])
    /\ call.status = Captured
    /\ shell = <<esc[1]>>

\* C3 as stated: an Escape key press with no escape message registered never
\* emits a message and never consumes the event.
C3_Original ==
    (EscapeCall /\ esc = None) => (shell = <<>> /\ call.status # Captured)

\* C3 as amended: on an Escape key press with no escape message registered the
\* overlay's own checks publish nothing and both yield Ignored; with the
\* content child present the event is forwarded to the content, on_event
\* returns the content's status and the shell holds what the content published.
C3_EscapeUnregistered ==
    (EscapeCall /\ esc = None) =>
        /\ call.published = <<>>
        /\ call.esc_status = Ignored
        /\ call.backdrop_status = Ignored
        /\ HasChild(call.layout) =>
              /\ call.outcome = "returned"
              /\ Len(call.contentCalls) = 1
              /\ call.status = call.content[1].status
              /\ shell = call.content[1].msgs

C3_Witness ==
    /\ EscapeCall /\ esc = None /\ IsSome(backdrop) /\ HasChild(call.layout)
    /\ call.published = <<>>
    /\ call.status = Captured
    /\ shell # <<>>

\* C4: on a layout with the content child, on_event forwards the event to the
\* content's handler exactly when neither check captured it: if one did, the
\* result is Captured and the content is not called; if none did, the content
\* is called once, with the same event and cursor, on the content child layout,
\* and on_event returns the status the content returned.
C4_ForwardIffIgnored ==
    (call.op = "on_event" /\ HasChild(call.layout)) =>
        LET captured == call.esc_status = Captured \/ call.backdrop_status = Captured
        IN  /\ call.outcome = "returned"
            /\ (call.contentCalls # <<>>) <=> ~captured
            /\ captured => call.status = Captured
            /\ ~captured =>
                  /\ Len(call.contentCalls) = 1
                  /\ call.contentCalls[1].method = "on_event"
                  /\ call.contentCalls[1].event = call.event
                  /\ call.contentCalls[1].cursor = call.cursor
                  /\ call.contentCalls[1].layout = call.layout.children[1]
                  /\ call.status = call.content[1].status

C4_Witness ==
    /\ call.op = "on_event" /\ HasChild(call.layout)
    /\ IsSome(esc) /\ IsSome(backdrop)
    /\ call.event.type = "Mouse" /\ call.event.arg = "Right"
    /\ Len(call.contentCalls) = 1
    /\ call.status = Captured

\* The latest call is one of the three calls that take a layout.
LayoutTakingCall == call.op \in {"on_event", "mouse_interaction", "draw"}

\* C5 as stated: whenever the layout handed to on_event, mouse_interaction or
\* draw has no content child the call aborts, for every event, cursor and
\* message registration, and no call aborts otherwise.
C5_Original ==
    LayoutTakingCall => (call.outcome = "panicked" <=> ~HasChild(call.layout))

\* C5 as amended: without a content child, mouse_interaction and draw always
\* abort, and on_event aborts unless the event is an Escape key press with an
\* escape message registered, which it captures before it looks for the child;
\* no call aborts on a layout that has the content child.
C5_AbortWithoutChild ==
    LayoutTakingCall =>
        /\ (call.op \in {"mouse_interaction", "draw"} /\ ~HasChild(call.layout))
              => call.outcome = "panicked"
        /\ (call.op = "on_event" /\ ~HasChild(call.layout)) =>
              IF IsEscapePressed(call.event) /\ IsSome(esc)
              THEN call.outcome = "returned" /\ call.status = Captured
              ELSE call.outcome = "panicked"
        /\ call.outcome = "panicked" => ~HasChild(call.layout)

C5_Witness ==
    /\ EscapeCall /\ IsSome(esc) /\ ~HasChild(call.layout)
    /\ call.outcome = "returned"
    /\ call.status = Captured

\* C6: layout places the content at anchor + (available/2 - content/2) on each
\* axis: twice the offset from the anchor is the difference of the extents, the
\* content keeps its size, and available 400x300 with content 100x50 at anchor
\* (0,0) gives (150,125).
C6_Centered ==
    call.op = "layout" =>
        LET child == ContentRect(node[1])
        IN  /\ 2 * (child.x - call.position[1]) = call.bounds[1] - call.contentSize[1]
            /\ 2 * (child.y - call.position[2]) = call.bounds[2] - call.contentSize[2]
            /\ child.width = call.contentSize[1]
            /\ child.height = call.contentSize[2]
            /\ (call.bounds = ExampleBounds /\ call.contentSize = ExampleContent)
                  => /\ child.x = call.position[1] + 150
                     /\ child.y = call.position[2] + 125

C6_Witness ==
    /\ call.op = "layout"
    /\ call.bounds = ExampleBounds /\ call.contentSize = ExampleContent
    /\ call.position = <<0, 0>>
    /\ ContentRect(node[1]).x = 150
    /\ ContentRect(node[1]).y = 125

\* C7: the node layout returns has exactly one child and the size of the full
\* available bounds, whatever the content's size and the anchor.
C7_OneChildFullSize ==
    call.op = "layout" =>
        /\ Len(node[1].children) = 1
        /\ node[1].bounds.width = call.bounds[1]
        /\ node[1].bounds.height = call.bounds[2]

C7_Witness ==
    /\ call.op = "layout"
    /\ call.contentSize[1] > call.bounds[1]
    /\ call.position # <<0, 0>>
    /\ Len(node[1].children) = 1

\* C8: in every draw call the first renderer operation is the fill of the full
\* overlay bounds with the background of the active style, it is the only fill
\* of the call, and the content's draw comes after it.
C8_BackdropFirst ==
    call.op = "draw" =>
        /\ Len(rendered) >= 1
        /\ rendered[1].op = "fill_quad"
        /\ rendered[1].bounds = call.layout.bounds
        /\ rendered[1].background = Some(Active(call.theme, style).background)
        /\ Cardinality({i \in 1..Len(rendered) : rendered[i].op = "fill_quad"}) = 1
        /\ \A i \in 1..Len(rendered) : rendered[i].op = "content.draw" => i > 1

C8_Witness ==
    /\ call.op = "draw"
    /\ call.outcome = "returned"
    /\ Len(rendered) = 2
    /\ rendered[2].op = "content.draw"

\* C9: handling an event never changes the registered messages, each on_event
\* call publishes at most one overlay message, every Escape press with an escape
\* message and every press outside the content with a backdrop message publishes
\* it, however many were published before, and the overlay has published as many
\* messages as it has captured calls.
C9_State ==
    /\ nPublished = nCaptured
    /\ call.op = "on_event" =>
          /\ Len(call.published) <= 1
          /\ Len(call.published) = 1
                <=> (call.esc_status = Captured \/ call.backdrop_status = Captured)
          /\ (IsEscapePressed(call.event) /\ IsSome(esc)) => call.published = <<esc[1]>>
          /\ (/\ IsPrimaryPress(call.event) /\ IsSome(backdrop)
              /\ HasChild(call.layout) /\ IsSome(call.cursor)
              /\ StrictlyOutside(ContentRect(call.layout), call.cursor[1]))
                => call.published = <<backdrop[1]>>

C9_NotOneShot == []C9_State /\ [][esc' = esc /\ backdrop' = backdrop]_vars

C9_Witness ==
    /\ call.op = "on_event"
    /\ nCaptured = 2
    /\ nPublished = 2
    /\ IsSome(esc)
    /\ call.published = <<esc[1]>>

====
